---- MODULE Spec2Model ----
(***************************************************************************)
(* Model of the go-locks repository: the ticket lock (package ticket),     *)
(* the MCS queue lock (package mcs) and the array lock (package alock),    *)
(* each driven by goroutines that call Lock / TryLock / Unlock around a    *)
(* critical section that increments a shared counter non-atomically.       *)
(* Every atomic operation of the Go code is one action.                    *)
(***************************************************************************)
EXTENDS Integers, Sequences, FiniteSets, TLC

(* ------------------------------ bounds --------------------------------- *)

\* number of goroutines contending for one lock
NumThreads == 3

\* lock/unlock rounds each goroutine performs (the tests' "iterations")
Iterations == 2

\* width w of the ticket lock's head and tail counters (32 in the code)
CounterBits == 2

(* --------------------------- program constants ------------------------- *)

ticketBaseWait == 10

Threads == 1..NumThreads

\* uint32 arithmetic of the ticket counters, at the model's width
Mod == 2 ^ CounterBits

Wrap(x) == x % Mod

VARIABLES
    \* ---- ticket.Lock and the goroutines of ticket_test.go
    bigEndian,      \* byte order of the build: decides which half of the uint64 is head
    head,           \* Lock.head
    tail,           \* Lock.tail
    tpc,            \* tpc[t]: where goroutine t is
    myTicket,       \* Lock(): myTicket
    distancePrev,   \* Lock(): distancePrev
    wait,           \* Lock(): wait
    me,             \* TryLock(): me
    tmp,            \* counter++ : the value read
    iter,           \* rounds goroutine t has finished
    counter,        \* the tests' shared counter
    tqueue,         \* history: goroutines holding an unreleased ticket, in ticket order
    executions,     \* TestLockFairness: headValue recorded by each holder, in order
    tryResult       \* history: "true"/"false" after goroutine t's TryLock, "none" once it calls Lock

VARIABLES
    \* ---- mcs.Lock and one QNode per goroutine (goroutine t owns node t)
    mtail,          \* Lock.tail: a node, or Nil
    mnext,          \* mnext[n]: QNode.next of node n
    waiting,        \* waiting[n]: QNode.waiting of node n
    mpc,            \* mpc[t]: where goroutine t is
    pred,           \* Lock(): pred
    succ,           \* Unlock(): succ
    mqueue,         \* history: goroutines swapped into tail that have not yet called Unlock
    menq,           \* history: goroutines swapped into tail and not yet released, in swap order
    mtry            \* history: "true"/"false" after goroutine t's TryLock, "none" once it calls Lock

VARIABLES
    \* ---- alock.ArrayLock: the one *ArrayLock NewArrayLock returns, shared by all
    size,           \* Share.size
    flags,          \* Share.flags, indexed 0..size-1
    atail,          \* Share.tail
    myIndex,        \* ArrayLock.myIndex: a field of the shared *ArrayLock
    active,         \* number of goroutines that use the lock
    apc,            \* apc[t]: where goroutine t is
    slot,           \* Lock() / Unlock(): slot
    ttail,          \* TryLock(): tail
    aiter,          \* rounds goroutine t has finished
    aqueue,         \* history: goroutines with an unreleased slot, in tail-increment order
    assigned,       \* history: the slot goroutine t computed when it last acquired
    atry            \* history: "true"/"false" after goroutine t's TryLock, "none" once it calls Lock

ticketVars == <<bigEndian, head, tail, tpc, myTicket, distancePrev, wait, me, tmp,
                iter, counter, tqueue, executions, tryResult>>

mcsVars == <<mtail, mnext, waiting, mpc, pred, succ, mqueue, menq, mtry>>

arrayVars == <<size, flags, atail, myIndex, active, apc, slot, ttail, aiter, aqueue,
              assigned, atry>>

vars == <<ticketVars, mcsVars, arrayVars>>

(* ============================ ticket lock ============================== *)

\* func subAbs(a, b uint32) uint32
subAbs(a, b) == IF a > b THEN a - b ELSE b - a

\* (*uint64)(unsafe.Pointer(t)): the 8 bytes of struct {head; tail} read as one
\* integer.  head is at offset 0: it is the low half on a little-endian build
\* and the high half on a big-endian build.
Word(h, tl) == IF bigEndian THEN h * Mod + tl ELSE tl * Mod + h

WordHead(w) == IF bigEndian THEN w \div Mod ELSE w % Mod

WordTail(w) == IF bigEndian THEN w % Mod ELSE w \div Mod

\* uint64(hi)<<32 | uint64(lo)
Pack(hi, lo) == hi * Mod + lo

\* t.head - t.tail == 1
isFree == Wrap(head - tail) = 1

\* goroutine t is between the return of Lock (or a true TryLock) and its Unlock
Holding(t) == tpc[t] \in {"cs", "cs_write", "cs_record", "unlock"}

Remove(q, t) == SelectSeq(q, LAMBDA x : x # t)

\* NewLock() and the tests' set-up
TicketInit(be) ==
    /\ bigEndian = be
    /\ head = 1
    /\ tail = 0
    /\ tpc = [t \in Threads |-> "idle"]
    /\ myTicket = [t \in Threads |-> 0]
    /\ distancePrev = [t \in Threads |-> 0]
    /\ wait = [t \in Threads |-> 0]
    /\ me = [t \in Threads |-> 0]
    /\ tmp = [t \in Threads |-> 0]
    /\ iter = [t \in Threads |-> 0]
    /\ counter = 0
    /\ tqueue = <<>>
    /\ executions = <<>>
    /\ tryResult = [t \in Threads |-> "none"]

\* mutant of LockTakeTicket: the ticket is the value of tail before the add
LockTakeTicketOldValue(t) ==
    /\ tpc[t] = "idle"
    /\ tail' = Wrap(tail + 1)
    /\ myTicket' = [myTicket EXCEPT ![t] = tail]
    /\ tpc' = [tpc EXCEPT ![t] = "fast"]
    /\ tqueue' = Append(tqueue, t)
    /\ tryResult' = [tryResult EXCEPT ![t] = "none"]
    /\ UNCHANGED <<bigEndian, head, distancePrev, wait, me, tmp, iter, counter,
                   executions>>
    /\ UNCHANGED <<mcsVars, arrayVars>>

\* Lock(): myTicket := atomic.AddUint32(&t.tail, 1)
LockTakeTicket(t) ==
    /\ tpc[t] = "idle"
    /\ tail' = Wrap(tail + 1)
    /\ myTicket' = [myTicket EXCEPT ![t] = Wrap(tail + 1)]
    /\ tpc' = [tpc EXCEPT ![t] = "fast"]
    /\ tqueue' = Append(tqueue, t)
    /\ tryResult' = [tryResult EXCEPT ![t] = "none"]
    /\ UNCHANGED <<bigEndian, head, distancePrev, wait, me, tmp, iter, counter,
                   executions>>
    /\ UNCHANGED <<mcsVars, arrayVars>>

\* Lock(): cur := atomic.LoadUint32(&t.head); if cur == myTicket { return };
\*         wait := ticketBaseWait; distancePrev := uint32(1)
LockFastPath(t) ==
    /\ tpc[t] = "fast"
    /\ IF head = myTicket[t]
         THEN /\ tpc' = [tpc EXCEPT ![t] = "cs"]
              /\ myTicket' = [myTicket EXCEPT ![t] = 0]
              /\ UNCHANGED <<wait, distancePrev>>
         ELSE /\ tpc' = [tpc EXCEPT ![t] = "spin"]
              /\ wait' = [wait EXCEPT ![t] = ticketBaseWait]
              /\ distancePrev' = [distancePrev EXCEPT ![t] = 1]
              /\ UNCHANGED myTicket
    /\ UNCHANGED <<bigEndian, head, tail, me, tmp, iter, counter, tqueue,
                   executions, tryResult>>
    /\ UNCHANGED <<mcsVars, arrayVars>>

\* mutant of LockSpin: the loop also ends when the goroutine is next in line
LockSpinNextInLine(t) ==
    /\ tpc[t] = "spin"
    /\ IF subAbs(head, myTicket[t]) <= 1
         THEN /\ tpc' = [tpc EXCEPT ![t] = "cs"]
              /\ myTicket' = [myTicket EXCEPT ![t] = 0]
              /\ wait' = [wait EXCEPT ![t] = 0]
              /\ distancePrev' = [distancePrev EXCEPT ![t] = 0]
         ELSE LET distance == subAbs(head, myTicket[t]) IN
              /\ IF distance > 1 /\ distance # distancePrev[t]
                   THEN /\ distancePrev' = [distancePrev EXCEPT ![t] = distance]
                        /\ wait' = [wait EXCEPT ![t] = ticketBaseWait]
                   ELSE UNCHANGED <<distancePrev, wait>>
              /\ UNCHANGED <<tpc, myTicket>>
    /\ UNCHANGED <<bigEndian, head, tail, me, tmp, iter, counter, tqueue,
                   executions, tryResult>>
    /\ UNCHANGED <<mcsVars, arrayVars>>

\* Lock(): one turn of the spin loop
LockSpin(t) ==
    /\ tpc[t] = "spin"
    /\ IF head = myTicket[t]
         THEN /\ tpc' = [tpc EXCEPT ![t] = "cs"]
              /\ myTicket' = [myTicket EXCEPT ![t] = 0]
              /\ wait' = [wait EXCEPT ![t] = 0]
              /\ distancePrev' = [distancePrev EXCEPT ![t] = 0]
         ELSE LET distance == subAbs(head, myTicket[t]) IN
              /\ IF distance > 1 /\ distance # distancePrev[t]
                   THEN /\ distancePrev' = [distancePrev EXCEPT ![t] = distance]
                        /\ wait' = [wait EXCEPT ![t] = ticketBaseWait]
                   ELSE UNCHANGED <<distancePrev, wait>>
              /\ UNCHANGED <<tpc, myTicket>>
    /\ UNCHANGED <<bigEndian, head, tail, me, tmp, iter, counter, tqueue,
                   executions, tryResult>>
    /\ UNCHANGED <<mcsVars, arrayVars>>

\* TryLock(): me := t.tail
TryLockRead(t) ==
    /\ tpc[t] = "idle"
    /\ me' = [me EXCEPT ![t] = tail]
    /\ tpc' = [tpc EXCEPT ![t] = "try_cas"]
    /\ UNCHANGED <<bigEndian, head, tail, myTicket, distancePrev, wait, tmp, iter,
                   counter, tqueue, executions, tryResult>>
    /\ UNCHANGED <<mcsVars, arrayVars>>

\* TryLock(): atomic.CompareAndSwapUint64((*uint64)(unsafe.Pointer(t)),
\*              uint64(me+1)<<32|uint64(me), uint64(me+1)<<32|uint64(meNew))
TryLockCAS(t) ==
    /\ tpc[t] = "try_cas"
    /\ LET old   == Pack(Wrap(me[t] + 1), me[t])
           new   == Pack(Wrap(me[t] + 1), Wrap(me[t] + 1))
       IN IF Word(head, tail) = old
            THEN /\ head' = WordHead(new)
                 /\ tail' = WordTail(new)
                 /\ tpc' = [tpc EXCEPT ![t] = "cs"]
                 /\ tqueue' = Append(tqueue, t)
                 /\ tryResult' = [tryResult EXCEPT ![t] = "true"]
                 /\ iter' = iter
            ELSE /\ UNCHANGED <<head, tail, tqueue>>
                 /\ tryResult' = [tryResult EXCEPT ![t] = "false"]
                 /\ iter' = [iter EXCEPT ![t] = @ + 1]
                 /\ tpc' = [tpc EXCEPT ![t] =
                              IF iter[t] + 1 >= Iterations THEN "done" ELSE "idle"]
    /\ me' = [me EXCEPT ![t] = 0]
    /\ UNCHANGED <<bigEndian, myTicket, distancePrev, wait, tmp, counter, executions>>
    /\ UNCHANGED <<mcsVars, arrayVars>>

\* critical section, counter++ : the read
CounterRead(t) ==
    /\ tpc[t] = "cs"
    /\ tmp' = [tmp EXCEPT ![t] = counter]
    /\ tpc' = [tpc EXCEPT ![t] = "cs_write"]
    /\ UNCHANGED <<bigEndian, head, tail, myTicket, distancePrev, wait, me, iter,
                   counter, tqueue, executions, tryResult>>
    /\ UNCHANGED <<mcsVars, arrayVars>>

\* critical section, counter++ : the write
CounterWrite(t) ==
    /\ tpc[t] = "cs_write"
    /\ counter' = tmp[t] + 1
    /\ tmp' = [tmp EXCEPT ![t] = 0]
    /\ tpc' = [tpc EXCEPT ![t] = "cs_record"]
    /\ UNCHANGED <<bigEndian, head, tail, myTicket, distancePrev, wait, me, iter,
                   tqueue, executions, tryResult>>
    /\ UNCHANGED <<mcsVars, arrayVars>>

\* critical section: executions = append(executions, {headValue: atomic.LoadUint32(&lock.head)})
RecordHead(t) ==
    /\ tpc[t] = "cs_record"
    /\ executions' = Append(executions, head)
    /\ tpc' = [tpc EXCEPT ![t] = "unlock"]
    /\ UNCHANGED <<bigEndian, head, tail, myTicket, distancePrev, wait, me, tmp, iter,
                   counter, tqueue, tryResult>>
    /\ UNCHANGED <<mcsVars, arrayVars>>

\* mutant of TicketUnlock: head is not advanced
TicketUnlockNoAdd(t) ==
    /\ tpc[t] = "unlock"
    /\ iter' = [iter EXCEPT ![t] = @ + 1]
    /\ tpc' = [tpc EXCEPT ![t] = IF iter[t] + 1 >= Iterations THEN "done" ELSE "idle"]
    /\ tqueue' = Remove(tqueue, t)
    /\ UNCHANGED <<bigEndian, head, tail, myTicket, distancePrev, wait, me, tmp, counter,
                   executions, tryResult>>
    /\ UNCHANGED <<mcsVars, arrayVars>>

\* Unlock(): atomic.AddUint32(&t.head, 1)
TicketUnlock(t) ==
    /\ tpc[t] = "unlock"
    /\ head' = Wrap(head + 1)
    /\ iter' = [iter EXCEPT ![t] = @ + 1]
    /\ tpc' = [tpc EXCEPT ![t] = IF iter[t] + 1 >= Iterations THEN "done" ELSE "idle"]
    /\ tqueue' = Remove(tqueue, t)
    /\ UNCHANGED <<bigEndian, tail, myTicket, distancePrev, wait, me, tmp, counter,
                   executions, tryResult>>
    /\ UNCHANGED <<mcsVars, arrayVars>>

\* goroutines of TestLockConcurrentAccess / TestLockFairness: Lock, work, Unlock
TicketNext ==
    \E t \in Threads :
        \/ LockTakeTicket(t)
        \/ LockFastPath(t)
        \/ LockSpin(t)
        \/ CounterRead(t)
        \/ CounterWrite(t)
        \/ RecordHead(t)
        \/ TicketUnlock(t)

\* goroutines that acquire by Lock or by TryLock (BenchmarkTicketLockTryLock)
TicketTryNext ==
    \E t \in Threads :
        \/ LockTakeTicket(t)
        \/ LockFastPath(t)
        \/ LockSpin(t)
        \/ TryLockRead(t)
        \/ TryLockCAS(t)
        \/ CounterRead(t)
        \/ CounterWrite(t)
        \/ RecordHead(t)
        \/ TicketUnlock(t)

(* ============================== MCS lock =============================== *)

\* the nil *QNode
Nil == 0

\* goroutine t is between the return of Lock(node) and the end of its Unlock(node)
McsHolding(t) ==
    mpc[t] \in {"cs", "unlock_cas", "unlock_wait", "unlock_load", "unlock_store"}

\* mcs.NewLock(), and a zero QNode per goroutine
McsInit ==
    /\ mtail = Nil
    /\ mnext = [n \in Threads |-> Nil]
    /\ waiting = [n \in Threads |-> 0]
    /\ mpc = [t \in Threads |-> "idle"]
    /\ pred = [t \in Threads |-> Nil]
    /\ succ = [t \in Threads |-> Nil]
    /\ mqueue = <<>>
    /\ menq = <<>>
    /\ mtry = [t \in Threads |-> "none"]

\* Lock(node): node.next.Store(nil)
McsLockStart(t) ==
    /\ mpc[t] = "idle"
    /\ mnext' = [mnext EXCEPT ![t] = Nil]
    /\ mpc' = [mpc EXCEPT ![t] = "swap"]
    /\ UNCHANGED <<mtail, waiting, pred, succ, mqueue>>
    /\ mtry' = [mtry EXCEPT ![t] = "none"]
    /\ UNCHANGED menq
    /\ UNCHANGED <<ticketVars, arrayVars>>

\* mutant of McsLockSwap: tail is replaced only when it is nil
McsLockSwapIfNil(t) ==
    /\ mpc[t] = "swap"
    /\ mtail' = IF mtail = Nil THEN t ELSE mtail
    /\ IF mtail = Nil
         THEN /\ mpc' = [mpc EXCEPT ![t] = "cs"]
              /\ UNCHANGED pred
         ELSE /\ mpc' = [mpc EXCEPT ![t] = "set_waiting"]
              /\ pred' = [pred EXCEPT ![t] = mtail]
    /\ mqueue' = Append(mqueue, t)
    /\ UNCHANGED <<mnext, waiting, succ>>
    /\ menq' = Append(menq, t)
    /\ UNCHANGED mtry
    /\ UNCHANGED <<ticketVars, arrayVars>>

\* Lock(node): pred := l.tail.Swap(node); if pred == nil { return }
McsLockSwap(t) ==
    /\ mpc[t] = "swap"
    /\ mtail' = t
    /\ IF mtail = Nil
         THEN /\ mpc' = [mpc EXCEPT ![t] = "cs"]
              /\ UNCHANGED pred
         ELSE /\ mpc' = [mpc EXCEPT ![t] = "set_waiting"]
              /\ pred' = [pred EXCEPT ![t] = mtail]
    /\ mqueue' = Append(mqueue, t)
    /\ UNCHANGED <<mnext, waiting, succ>>
    /\ menq' = Append(menq, t)
    /\ UNCHANGED mtry
    /\ UNCHANGED <<ticketVars, arrayVars>>

\* mutant of McsLockSetWaiting: the waiting flag is never raised
McsLockSetWaitingSkipped(t) ==
    /\ mpc[t] = "set_waiting"
    /\ mpc' = [mpc EXCEPT ![t] = "link"]
    /\ UNCHANGED <<mtail, mnext, waiting, pred, succ, mqueue>>
    /\ UNCHANGED <<menq, mtry>>
    /\ UNCHANGED <<ticketVars, arrayVars>>

\* Lock(node): atomic.StoreUint32(&node.waiting, 1)
McsLockSetWaiting(t) ==
    /\ mpc[t] = "set_waiting"
    /\ waiting' = [waiting EXCEPT ![t] = 1]
    /\ mpc' = [mpc EXCEPT ![t] = "link"]
    /\ UNCHANGED <<mtail, mnext, pred, succ, mqueue>>
    /\ UNCHANGED <<menq, mtry>>
    /\ UNCHANGED <<ticketVars, arrayVars>>

\* mutant of McsLockLink: the link to the predecessor is never stored
McsLockLinkSkipped(t) ==
    /\ mpc[t] = "link"
    /\ pred' = [pred EXCEPT ![t] = Nil]
    /\ mpc' = [mpc EXCEPT ![t] = "wait"]
    /\ UNCHANGED <<mtail, mnext, waiting, succ, mqueue>>
    /\ UNCHANGED <<menq, mtry>>
    /\ UNCHANGED <<ticketVars, arrayVars>>

\* Lock(node): pred.next.Store(node)
McsLockLink(t) ==
    /\ mpc[t] = "link"
    /\ mnext' = [mnext EXCEPT ![pred[t]] = t]
    /\ pred' = [pred EXCEPT ![t] = Nil]
    /\ mpc' = [mpc EXCEPT ![t] = "wait"]
    /\ UNCHANGED <<mtail, waiting, succ, mqueue>>
    /\ UNCHANGED <<menq, mtry>>
    /\ UNCHANGED <<ticketVars, arrayVars>>

\* Lock(node): for atomic.LoadUint32(&node.waiting) != 0 { runtime.Gosched() }
McsLockSpin(t) ==
    /\ mpc[t] = "wait"
    /\ mpc' = [mpc EXCEPT ![t] = IF waiting[t] # 0 THEN "wait" ELSE "cs"]
    /\ UNCHANGED <<mtail, mnext, waiting, pred, succ, mqueue>>
    /\ UNCHANGED <<menq, mtry>>
    /\ UNCHANGED <<ticketVars, arrayVars>>

\* TryLock(node): node.next.Store(nil)
McsTryLockStart(t) ==
    /\ mpc[t] = "idle"
    /\ mnext' = [mnext EXCEPT ![t] = Nil]
    /\ mpc' = [mpc EXCEPT ![t] = "try_cas"]
    /\ UNCHANGED <<mtail, waiting, pred, succ, mqueue>>
    /\ UNCHANGED <<menq, mtry>>
    /\ UNCHANGED <<ticketVars, arrayVars>>

\* mutant of McsTryLockCAS: tail is swapped without comparing it with nil
McsTryLockSwap(t) ==
    /\ mpc[t] = "try_cas"
    /\ mtail' = t
    /\ mpc' = [mpc EXCEPT ![t] = "cs"]
    /\ mqueue' = Append(mqueue, t)
    /\ UNCHANGED <<mnext, waiting, pred, succ>>
    /\ menq' = Append(menq, t)
    /\ mtry' = [mtry EXCEPT ![t] = "true"]
    /\ UNCHANGED <<ticketVars, arrayVars>>

\* TryLock(node): return l.tail.CompareAndSwap(nil, node)
McsTryLockCAS(t) ==
    /\ mpc[t] = "try_cas"
    /\ IF mtail = Nil
         THEN /\ mtail' = t
              /\ mpc' = [mpc EXCEPT ![t] = "cs"]
              /\ mqueue' = Append(mqueue, t)
         ELSE /\ mpc' = [mpc EXCEPT ![t] = "idle"]
              /\ UNCHANGED <<mtail, mqueue>>
    /\ UNCHANGED <<mnext, waiting, pred, succ>>
    /\ menq' = IF mtail = Nil THEN Append(menq, t) ELSE menq
    /\ mtry' = [mtry EXCEPT ![t] = IF mtail = Nil THEN "true" ELSE "false"]
    /\ UNCHANGED <<ticketVars, arrayVars>>

\* Unlock(node): if node.next.Load() == nil
McsUnlockLoadNext(t) ==
    /\ mpc[t] = "cs"
    /\ mpc' = [mpc EXCEPT ![t] = IF mnext[t] = Nil THEN "unlock_cas" ELSE "unlock_load"]
    /\ mqueue' = Remove(mqueue, t)
    /\ UNCHANGED <<mtail, mnext, waiting, pred, succ>>
    /\ UNCHANGED <<menq, mtry>>
    /\ UNCHANGED <<ticketVars, arrayVars>>

\* mutant of McsUnlockCAS: tail is cleared without comparing it with node
McsUnlockStoreNil(t) ==
    /\ mpc[t] = "unlock_cas"
    /\ mtail' = Nil
    /\ mpc' = [mpc EXCEPT ![t] = "idle"]
    /\ UNCHANGED <<mnext, waiting, pred, succ, mqueue>>
    /\ menq' = Remove(menq, t)
    /\ UNCHANGED mtry
    /\ UNCHANGED <<ticketVars, arrayVars>>

\* mutant of McsUnlockCAS: Unlock returns after a failed CAS without waiting
\* for the successor's link
McsUnlockCASNoWait(t) ==
    /\ mpc[t] = "unlock_cas"
    /\ mtail' = IF mtail = t THEN Nil ELSE mtail
    /\ mpc' = [mpc EXCEPT ![t] = "idle"]
    /\ UNCHANGED <<mnext, waiting, pred, succ, mqueue>>
    /\ menq' = Remove(menq, t)
    /\ UNCHANGED mtry
    /\ UNCHANGED <<ticketVars, arrayVars>>

\* Unlock(node): if l.tail.CompareAndSwap(node, nil) { return }
McsUnlockCAS(t) ==
    /\ mpc[t] = "unlock_cas"
    /\ IF mtail = t
         THEN /\ mtail' = Nil
              /\ mpc' = [mpc EXCEPT ![t] = "idle"]
         ELSE /\ mpc' = [mpc EXCEPT ![t] = "unlock_wait"]
              /\ UNCHANGED mtail
    /\ UNCHANGED <<mnext, waiting, pred, succ, mqueue>>
    /\ menq' = IF mtail = t THEN Remove(menq, t) ELSE menq
    /\ UNCHANGED mtry
    /\ UNCHANGED <<ticketVars, arrayVars>>

\* Unlock(node): for { succ := node.next.Load(); if succ != nil {...}; runtime.Gosched() }
McsUnlockWait(t) ==
    /\ mpc[t] = "unlock_wait"
    /\ IF mnext[t] # Nil
         THEN /\ succ' = [succ EXCEPT ![t] = mnext[t]]
              /\ mpc' = [mpc EXCEPT ![t] = "unlock_store"]
         ELSE UNCHANGED <<succ, mpc>>
    /\ UNCHANGED <<mtail, mnext, waiting, pred, mqueue>>
    /\ UNCHANGED <<menq, mtry>>
    /\ UNCHANGED <<ticketVars, arrayVars>>

\* Unlock(node): succ := node.next.Load()   (the successor was already linked)
McsUnlockLoadSucc(t) ==
    /\ mpc[t] = "unlock_load"
    /\ succ' = [succ EXCEPT ![t] = mnext[t]]
    /\ mpc' = [mpc EXCEPT ![t] = "unlock_store"]
    /\ UNCHANGED <<mtail, mnext, waiting, pred, mqueue>>
    /\ UNCHANGED <<menq, mtry>>
    /\ UNCHANGED <<ticketVars, arrayVars>>

\* Unlock(node): atomic.StoreUint32(&succ.waiting, 0); a nil succ is a nil
\* dereference, which ends the goroutine
McsUnlockSignal(t) ==
    /\ mpc[t] = "unlock_store"
    /\ IF succ[t] = Nil
         THEN /\ mpc' = [mpc EXCEPT ![t] = "panic"]
              /\ UNCHANGED waiting
         ELSE /\ waiting' = [waiting EXCEPT ![succ[t]] = 0]
              /\ mpc' = [mpc EXCEPT ![t] = "idle"]
    /\ succ' = [succ EXCEPT ![t] = Nil]
    /\ UNCHANGED <<mtail, mnext, pred, mqueue>>
    /\ menq' = Remove(menq, t)
    /\ UNCHANGED mtry
    /\ UNCHANGED <<ticketVars, arrayVars>>

\* l.tail.Load() == nil
IsFree == mtail = Nil

(* ============================= array lock ============================== *)

\* largest capacity NewArrayLock is called with
MaxSize == 3

\* goroutine t is between the return of Lock (or a true TryLock) and the end of its Unlock
ArrayHolding(t) == apc[t] \in {"cs", "unlock_clear", "unlock_open"}

\* goroutines that use the array lock
ArrayThreads == 1..active

\* NewArrayLock(n), used by k goroutines
ArrayInit(n, k) ==
    /\ size = n
    /\ flags = [i \in 0..(n - 1) |-> IF i = 0 THEN 1 ELSE 0]
    /\ atail = 0
    /\ myIndex = 0
    /\ active = k
    /\ apc = [t \in Threads |-> "idle"]
    /\ slot = [t \in Threads |-> 0]
    /\ ttail = [t \in Threads |-> 0]
    /\ aiter = [t \in Threads |-> 0]
    /\ aqueue = <<>>
    /\ assigned = [t \in Threads |-> 0]
    /\ atry = [t \in Threads |-> "none"]

\* mutant of ArrayLockTakeSlot: the slot is the value of tail before the add
ArrayLockTakeSlotOldValue(t) ==
    /\ t \in ArrayThreads
    /\ apc[t] = "idle"
    /\ atail' = atail + 1
    /\ slot' = [slot EXCEPT ![t] = atail % size]
    /\ apc' = [apc EXCEPT ![t] = "set_index"]
    /\ aqueue' = Append(aqueue, t)
    /\ assigned' = [assigned EXCEPT ![t] = atail % size]
    /\ atry' = [atry EXCEPT ![t] = "none"]
    /\ UNCHANGED <<size, flags, myIndex, active, ttail, aiter>>
    /\ UNCHANGED <<ticketVars, mcsVars>>

\* Lock(): slot := atomic.AddUint32(&lock.tail, 1) % lock.size
ArrayLockTakeSlot(t) ==
    /\ t \in ArrayThreads
    /\ apc[t] = "idle"
    /\ atail' = atail + 1
    /\ slot' = [slot EXCEPT ![t] = (atail + 1) % size]
    /\ apc' = [apc EXCEPT ![t] = "set_index"]
    /\ aqueue' = Append(aqueue, t)
    /\ assigned' = [assigned EXCEPT ![t] = (atail + 1) % size]
    /\ atry' = [atry EXCEPT ![t] = "none"]
    /\ UNCHANGED <<size, flags, myIndex, active, ttail, aiter>>
    /\ UNCHANGED <<ticketVars, mcsVars>>

\* Lock(): al.myIndex = slot
ArrayLockSetIndex(t) ==
    /\ apc[t] = "set_index"
    /\ myIndex' = slot[t]
    /\ apc' = [apc EXCEPT ![t] = "spin"]
    /\ UNCHANGED <<size, flags, atail, active, slot, ttail, aiter, aqueue>>
    /\ UNCHANGED <<assigned, atry>>
    /\ UNCHANGED <<ticketVars, mcsVars>>

\* Lock(): for atomic.LoadUint32(&lock.flags[slot]) == 0 { runtime.Gosched() }
ArrayLockSpin(t) ==
    /\ apc[t] = "spin"
    /\ IF flags[slot[t]] = 0
         THEN UNCHANGED <<apc, slot>>
         ELSE /\ apc' = [apc EXCEPT ![t] = "cs"]
              /\ slot' = [slot EXCEPT ![t] = 0]
    /\ UNCHANGED <<size, flags, atail, myIndex, active, ttail, aiter, aqueue>>
    /\ UNCHANGED <<assigned, atry>>
    /\ UNCHANGED <<ticketVars, mcsVars>>

\* Unlock(): slot := al.myIndex
ArrayUnlockReadIndex(t) ==
    /\ apc[t] = "cs"
    /\ slot' = [slot EXCEPT ![t] = myIndex]
    /\ apc' = [apc EXCEPT ![t] = "unlock_clear"]
    /\ UNCHANGED <<size, flags, atail, myIndex, active, ttail, aiter, aqueue>>
    /\ UNCHANGED <<assigned, atry>>
    /\ UNCHANGED <<ticketVars, mcsVars>>

\* Unlock(): atomic.StoreUint32(&lock.flags[slot], 0)
ArrayUnlockClear(t) ==
    /\ apc[t] = "unlock_clear"
    /\ flags' = [flags EXCEPT ![slot[t]] = 0]
    /\ apc' = [apc EXCEPT ![t] = "unlock_open"]
    /\ UNCHANGED <<size, atail, myIndex, active, slot, ttail, aiter, aqueue>>
    /\ UNCHANGED <<assigned, atry>>
    /\ UNCHANGED <<ticketVars, mcsVars>>

\* Unlock(): nextSlot := (slot + 1) % lock.size; atomic.StoreUint32(&lock.flags[nextSlot], 1)
ArrayUnlockOpen(t) ==
    /\ apc[t] = "unlock_open"
    /\ flags' = [flags EXCEPT ![(slot[t] + 1) % size] = 1]
    /\ slot' = [slot EXCEPT ![t] = 0]
    /\ aiter' = [aiter EXCEPT ![t] = @ + 1]
    /\ apc' = [apc EXCEPT ![t] = IF aiter[t] + 1 >= Iterations THEN "done" ELSE "idle"]
    /\ aqueue' = Remove(aqueue, t)
    /\ UNCHANGED <<size, atail, myIndex, active, ttail>>
    /\ UNCHANGED <<assigned, atry>>
    /\ UNCHANGED <<ticketVars, mcsVars>>

\* TryLock(): tail := atomic.LoadUint32(&lock.tail)
ArrayTryLoadTail(t) ==
    /\ t \in ArrayThreads
    /\ apc[t] = "idle"
    /\ ttail' = [ttail EXCEPT ![t] = atail]
    /\ apc' = [apc EXCEPT ![t] = "try_flag"]
    /\ atry' = [atry EXCEPT ![t] = "none"]
    /\ UNCHANGED <<size, flags, atail, myIndex, active, slot, aiter, aqueue, assigned>>
    /\ UNCHANGED <<ticketVars, mcsVars>>

\* TryLock(): if atomic.LoadUint32(&lock.flags[tail%lock.size]) == 1 { ... }; return false
ArrayTryLoadFlag(t) ==
    /\ apc[t] = "try_flag"
    /\ IF flags[ttail[t] % size] = 1
         THEN /\ apc' = [apc EXCEPT ![t] = "try_cas"]
              /\ UNCHANGED <<ttail, aiter, atry>>
         ELSE /\ atry' = [atry EXCEPT ![t] = "false"]
              /\ ttail' = [ttail EXCEPT ![t] = 0]
              /\ aiter' = [aiter EXCEPT ![t] = @ + 1]
              /\ apc' = [apc EXCEPT ![t] = IF aiter[t] + 1 >= Iterations THEN "done" ELSE "idle"]
    /\ UNCHANGED <<size, flags, atail, myIndex, active, slot, aqueue, assigned>>
    /\ UNCHANGED <<ticketVars, mcsVars>>

\* mutant of ArrayTryCAS: tail is advanced without comparing it with the value read
ArrayTryCASUnconditional(t) ==
    /\ apc[t] = "try_cas"
    /\ atail' = atail + 1
    /\ assigned' = [assigned EXCEPT ![t] = ttail[t] % size]
    /\ aqueue' = Append(aqueue, t)
    /\ apc' = [apc EXCEPT ![t] = "try_set"]
    /\ UNCHANGED <<ttail, aiter, atry>>
    /\ UNCHANGED <<size, flags, myIndex, active, slot>>
    /\ UNCHANGED <<ticketVars, mcsVars>>

\* TryLock(): if atomic.CompareAndSwapUint32(&lock.tail, tail, tail+1) { ... }; return false
ArrayTryCAS(t) ==
    /\ apc[t] = "try_cas"
    /\ IF atail = ttail[t]
         THEN /\ atail' = ttail[t] + 1
              /\ assigned' = [assigned EXCEPT ![t] = ttail[t] % size]
              /\ aqueue' = Append(aqueue, t)
              /\ apc' = [apc EXCEPT ![t] = "try_set"]
              /\ UNCHANGED <<ttail, aiter, atry>>
         ELSE /\ atry' = [atry EXCEPT ![t] = "false"]
              /\ ttail' = [ttail EXCEPT ![t] = 0]
              /\ aiter' = [aiter EXCEPT ![t] = @ + 1]
              /\ apc' = [apc EXCEPT ![t] = IF aiter[t] + 1 >= Iterations THEN "done" ELSE "idle"]
              /\ UNCHANGED <<atail, aqueue, assigned>>
    /\ UNCHANGED <<size, flags, myIndex, active, slot>>
    /\ UNCHANGED <<ticketVars, mcsVars>>

\* TryLock(): al.myIndex = tail % lock.size; return true
ArrayTrySetIndex(t) ==
    /\ apc[t] = "try_set"
    /\ myIndex' = ttail[t] % size
    /\ ttail' = [ttail EXCEPT ![t] = 0]
    /\ atry' = [atry EXCEPT ![t] = "true"]
    /\ apc' = [apc EXCEPT ![t] = "cs"]
    /\ UNCHANGED <<size, flags, atail, active, slot, aiter, aqueue, assigned>>
    /\ UNCHANGED <<ticketVars, mcsVars>>

(* =========================== specifications ============================ *)

\* the locks a run does not use stay as constructed
TicketIdle == TicketInit(FALSE)

ArrayIdle == ArrayInit(1, 1)

\* ticket.NewLock() on either byte order
InitTicket == (\E be \in BOOLEAN : TicketInit(be)) /\ McsInit /\ ArrayIdle

SpecTicket == InitTicket /\ [][TicketNext]_vars

SpecTicketTry == InitTicket /\ [][TicketTryNext]_vars

\* one step of goroutine t of TestLockConcurrentAccess / TestLockFairness
TicketStep(t) ==
    \/ LockTakeTicket(t)
    \/ LockFastPath(t)
    \/ LockSpin(t)
    \/ CounterRead(t)
    \/ CounterWrite(t)
    \/ RecordHead(t)
    \/ TicketUnlock(t)

\* Lock's waits are finite (bounded busy loops and a 1 ms sleep) and the
\* scheduler is preemptive, so every goroutine that can take a step eventually
\* does; a holder always goes on to Unlock
SpecTicketFair == InitTicket /\ [][TicketNext]_vars /\ \A t \in Threads : WF_vars(TicketStep(t))

\* goroutines that call Lock(node), the critical section, Unlock(node) for ever
McsNext ==
    \E t \in Threads :
        \/ McsLockStart(t)
        \/ McsLockSwap(t)
        \/ McsLockSetWaiting(t)
        \/ McsLockLink(t)
        \/ McsLockSpin(t)
        \/ McsUnlockLoadNext(t)
        \/ McsUnlockCAS(t)
        \/ McsUnlockWait(t)
        \/ McsUnlockLoadSucc(t)
        \/ McsUnlockSignal(t)

InitMcs == TicketIdle /\ McsInit /\ ArrayIdle

SpecMcs == InitMcs /\ [][McsNext]_vars

\* one step of goroutine t
McsStep(t) ==
    \/ McsLockStart(t)
    \/ McsLockSwap(t)
    \/ McsLockSetWaiting(t)
    \/ McsLockLink(t)
    \/ McsLockSpin(t)
    \/ McsUnlockLoadNext(t)
    \/ McsUnlockCAS(t)
    \/ McsUnlockWait(t)
    \/ McsUnlockLoadSucc(t)
    \/ McsUnlockSignal(t)

\* the Go scheduler preempts spinning goroutines (and the loops call
\* runtime.Gosched), so every goroutine that can take a step eventually does
SpecMcsFair == InitMcs /\ [][McsNext]_vars /\ \A t \in Threads : WF_vars(McsStep(t))

\* goroutines that acquire by Lock(node) or by TryLock(node)
McsTryNext ==
    \E t \in Threads :
        \/ McsLockStart(t)
        \/ McsLockSwap(t)
        \/ McsLockSetWaiting(t)
        \/ McsLockLink(t)
        \/ McsLockSpin(t)
        \/ McsTryLockStart(t)
        \/ McsTryLockCAS(t)
        \/ McsUnlockLoadNext(t)
        \/ McsUnlockCAS(t)
        \/ McsUnlockWait(t)
        \/ McsUnlockLoadSucc(t)
        \/ McsUnlockSignal(t)

SpecMcsTry == InitMcs /\ [][McsTryNext]_vars

\* at most size goroutines that call Lock, the critical section, Unlock
ArrayNext ==
    \E t \in Threads :
        \/ ArrayLockTakeSlot(t)
        \/ ArrayLockSetIndex(t)
        \/ ArrayLockSpin(t)
        \/ ArrayUnlockReadIndex(t)
        \/ ArrayUnlockClear(t)
        \/ ArrayUnlockOpen(t)

\* NewArrayLock(n) for each capacity n up to MaxSize, used by k <= n goroutines
InitArray ==
    /\ TicketIdle
    /\ McsInit
    /\ \E n \in 1..MaxSize : \E k \in 1..n : k <= NumThreads /\ ArrayInit(n, k)

SpecArray == InitArray /\ [][ArrayNext]_vars

\* NewArrayLock(n) used by more goroutines than its capacity
InitArrayOver ==
    /\ TicketIdle
    /\ McsInit
    /\ \E n \in 1..MaxSize : \E k \in (n + 1)..NumThreads : ArrayInit(n, k)

SpecArrayOver == InitArrayOver /\ [][ArrayNext]_vars

\* goroutines that acquire by Lock() or by TryLock()
ArrayTryNext ==
    \E t \in Threads :
        \/ ArrayLockTakeSlot(t)
        \/ ArrayLockSetIndex(t)
        \/ ArrayLockSpin(t)
        \/ ArrayTryLoadTail(t)
        \/ ArrayTryLoadFlag(t)
        \/ ArrayTryCAS(t)
        \/ ArrayTrySetIndex(t)
        \/ ArrayUnlockReadIndex(t)
        \/ ArrayUnlockClear(t)
        \/ ArrayUnlockOpen(t)

SpecArrayTry == InitArray /\ [][ArrayTryNext]_vars

(* ----------------------------- C1 -------------------------------------- *)

\* C1: ticket lock mutual exclusion under Lock/Unlock: at most one goroutine is
\* between the return of its Lock and its Unlock, and when all NumThreads
\* goroutines have finished their Iterations rounds the counter is exactly
\* NumThreads * Iterations.
TicketMutualExclusion ==
    /\ Cardinality({t \in Threads : Holding(t)}) <= 1
    /\ (\A t \in Threads : tpc[t] = "done") => counter = NumThreads * Iterations

\* a goroutine is inside counter++ while another spins in Lock, after a hand-over
TicketMutualExclusionWitness ==
    \E t, u \in Threads :
        /\ tpc[t] = "cs_write"
        /\ tpc[u] = "spin"
        /\ counter > 0

(* ----------------------------- C4 -------------------------------------- *)

\* C4: ticket lock FIFO: the goroutine holding the lock is always the one whose
\* ticket is the oldest unreleased one, and the head values recorded by
\* successive holders go up by exactly one (modulo the counter width).
TicketFIFO ==
    /\ \A t \in Threads : Holding(t) => (tqueue # <<>> /\ Head(tqueue) = t)
    /\ \A i \in 1..(Len(executions) - 1) : executions[i + 1] = Wrap(executions[i] + 1)

\* three holders have recorded head while two more goroutines wait with tickets
TicketFIFOWitness ==
    /\ Len(executions) >= 3
    /\ Len(tqueue) >= 2
    /\ \E t \in Threads : tpc[t] = "spin"

(* ----------------------------- C7 -------------------------------------- *)

\* C7: the TryLock transition: a TryLock whose CAS succeeds found head = tail+1,
\* adds one to tail and leaves head alone; a TryLock whose CAS fails changes
\* neither head nor tail.
TryLockTransition ==
    [][\A t \in Threads :
          (tpc[t] = "try_cas" /\ tpc'[t] # "try_cas") =>
              IF tpc'[t] = "cs"
                THEN head = Wrap(tail + 1) /\ tail' = Wrap(tail + 1) /\ head' = head
                ELSE head' = head /\ tail' = tail]_vars

(* ----------------------------- C8 -------------------------------------- *)

\* C8: TryLock exclusivity: while a goroutine holds the lock through a TryLock
\* that returned true, no other goroutine holds it (none held it when the
\* TryLock returned, and no Lock or TryLock of another goroutine has succeeded
\* since).
TryLockExclusivity ==
    \A t \in Threads :
        (Holding(t) /\ tryResult[t] = "true") => \A u \in Threads \ {t} : ~Holding(u)

(* ----------------------------- C9 -------------------------------------- *)

\* goroutine u has no call in progress and holds nothing
Quiet(u) == tpc[u] \in {"idle", "done"}

\* C9: the free state: with no call in progress and every acquisition released
\* isFree() is true; a TryLock whose CAS runs while every other goroutine is
\* quiet and tail is still the value it read returns true and leaves the lock
\* not free; a TryLock returns false only if another goroutine holds the lock or
\* has a call in progress on it.
TicketFreeState ==
    /\ []((\A t \in Threads : Quiet(t)) => isFree)
    /\ [][\A t \in Threads :
             (tpc[t] = "try_cas" /\ tpc'[t] # "try_cas") =>
                 /\ ((me[t] = tail /\ \A u \in Threads \ {t} : Quiet(u)) =>
                        (tpc'[t] = "cs" /\ ~isFree'))
                 /\ (tpc'[t] # "cs" => \E u \in Threads \ {t} : ~Quiet(u))]_vars

(* ----------------------------- C2 -------------------------------------- *)

\* C2: MCS lock mutual exclusion: at most one goroutine is between the return
\* of its Lock(node) and the end of its Unlock(node).
McsMutualExclusion == Cardinality({t \in Threads : McsHolding(t)}) <= 1

\* one goroutine is in its critical section, a second spins on its raised
\* waiting flag and a third has swapped itself in and not yet linked
McsMutualExclusionWitness ==
    \E t, u, v \in Threads :
        /\ mpc[t] = "cs"
        /\ mpc[u] = "wait" /\ waiting[u] = 1
        /\ mpc[v] = "link"

(* ----------------------------- C5 -------------------------------------- *)

\* C5: MCS lock FIFO: the goroutine in its critical section is the one whose
\* swap of tail is the oldest among those that have not yet called Unlock, so
\* no goroutine returns from Lock before an earlier-swapped one has returned
\* and called Unlock.
McsFIFO == \A t \in Threads : mpc[t] = "cs" => (mqueue # <<>> /\ Head(mqueue) = t)

\* a goroutine is in its critical section with every other goroutine swapped in
\* behind it, its successor linked and a later one at the tail
McsFIFOWitness ==
    \E t \in Threads :
        /\ mpc[t] = "cs"
        /\ Len(mqueue) = NumThreads
        /\ Head(mqueue) = t
        /\ mnext[t] # Nil
        /\ mtail # mnext[t]

(* ----------------------------- C3 -------------------------------------- *)

\* C3: array lock mutual exclusion with at most size goroutines: no two
\* goroutines are in the critical section at once.
ArrayMutualExclusion == Cardinality({t \in Threads : apc[t] = "cs"}) <= 1

(* ----------------------------- C6 -------------------------------------- *)

\* C6: array lock FIFO with at most size goroutines: the goroutine in the
\* critical section is the one whose increment of tail is the oldest among
\* those not yet released, so goroutines return from Lock in the order in which
\* they incremented tail and an Unlock hands the lock to the next ticket only.
ArrayFIFO == \A t \in Threads : apc[t] = "cs" => (aqueue # <<>> /\ Head(aqueue) = t)

(* ----------------------------- C10 ------------------------------------- *)

\* C10: array lock slot assignment: Lock is assigned the slot tail mod size for
\* the value of tail before its increment, and the first Lock on a fresh lock
\* spins on a flag that is open (slot 0), so it returns without help.
ArraySlotAssignment ==
    /\ [][\A t \in Threads :
             (apc[t] = "idle" /\ apc'[t] = "set_index") => slot'[t] = atail % size]_vars
    /\ [](\A t \in Threads :
             (atail = 1 /\ apc[t] \in {"set_index", "spin"}) =>
                 (slot[t] = 0 /\ flags[slot[t]] = 1))

(* ----------------------------- C11 ------------------------------------- *)

\* the goroutine swapped into tail right after t, Nil if there is none
McsNextInLine(t) ==
    IF \E i \in 1..(Len(menq) - 1) : menq[i] = t
      THEN menq[(CHOOSE i \in 1..(Len(menq) - 1) : menq[i] = t) + 1]
      ELSE Nil

\* C11: the Unlock race: an Unlock whose CAS runs after a successor swapped
\* itself into tail fails the CAS and leaves tail alone; it leaves its wait loop
\* only once the successor's link is published and then holds that successor;
\* its store clears the waiting flag of exactly that successor and nothing else;
\* and no wake-up is lost: a goroutine spinning on a raised flag always has an
\* unreleased goroutine ahead of it, one spinning on a cleared flag is the
\* oldest unreleased one, and under fair scheduling the successor caught in the
\* race eventually enters its critical section.
McsRaceHandOff ==
    /\ [](\A u \in Threads :
             mpc[u] = "wait" =>
                 /\ menq # <<>>
                 /\ (waiting[u] = 1 <=> Head(menq) # u))
    /\ [][\A t \in Threads :
             /\ (mpc[t] = "unlock_cas" /\ mpc'[t] # "unlock_cas" /\ mtail # t) =>
                    (mpc'[t] = "unlock_wait" /\ mtail' = mtail)
             /\ (mpc[t] = "unlock_wait" /\ mpc'[t] # "unlock_wait") =>
                    /\ mnext[t] # Nil
                    /\ mpc'[t] = "unlock_store"
                    /\ succ'[t] = McsNextInLine(t)
             /\ (mpc[t] = "unlock_store" /\ mpc'[t] # "unlock_store") =>
                    /\ McsNextInLine(t) # Nil
                    /\ mpc'[t] = "idle"
                    /\ waiting' = [waiting EXCEPT ![McsNextInLine(t)] = 0]]_vars
    /\ \A t, u \in Threads :
           (mpc[t] = "unlock_wait" /\ mpc[u] \in {"set_waiting", "link"} /\ pred[u] = t)
               ~> (mpc[u] = "cs")

\* the race itself: t's CAS has failed and it waits for a link that the
\* successor, already swapped into tail, has not yet stored
McsRaceHandOffWitness ==
    \E t, u \in Threads :
        /\ mpc[t] = "unlock_wait"
        /\ mnext[t] = Nil
        /\ mpc[u] \in {"set_waiting", "link"}
        /\ pred[u] = t

(* ----------------------------- C15 ------------------------------------- *)

\* C15: MCS progress under fair scheduling: every Lock(node) that has started
\* eventually returns and every Unlock(node) that has started eventually ends.
McsProgress ==
    /\ \A t \in Threads :
           (mpc[t] \in {"swap", "set_waiting", "link", "wait"}) ~> (mpc[t] = "cs")
    /\ \A t \in Threads :
           (mpc[t] \in {"unlock_cas", "unlock_wait", "unlock_load", "unlock_store"})
               ~> (mpc[t] = "idle")

\* every goroutine is inside Lock or Unlock at once: one waits in Unlock for a
\* link, the others are queued behind it
McsProgressWitness ==
    /\ \A t \in Threads : mpc[t] \notin {"idle", "cs"}
    /\ \E t \in Threads : mpc[t] = "unlock_wait"
    /\ \E u \in Threads : mpc[u] = "wait" /\ waiting[u] = 1

(* ----------------------------- C12 ------------------------------------- *)

\* C12: array lock over capacity: with more goroutines than slots, still at
\* most one goroutine is between the return of its Lock and its Unlock.
ArrayOverCapacityExclusion ==
    active > size => Cardinality({t \in Threads : ArrayHolding(t)}) <= 1

(* ----------------------------- C13 ------------------------------------- *)

\* C13: MCS TryLock never waits: its one CAS step ends the call. It returns
\* true exactly when tail was nil at the CAS, and tail then is the caller's
\* node; when it returns false, tail, every node's next and every waiting flag
\* are unchanged. While a goroutine holds the lock through a true TryLock, tail
\* is not nil (so every other TryLock fails) and no other goroutine is in its
\* critical section.
McsTryLockContract ==
    /\ [](\A t \in Threads :
             (McsHolding(t) /\ mtry[t] = "true") =>
                 /\ mtail # Nil
                 /\ \A u \in Threads \ {t} : ~McsHolding(u))
    /\ [][\A t \in Threads :
             (mpc[t] = "try_cas" /\ mpc'[t] # "try_cas") =>
                 /\ mpc'[t] \in {"cs", "idle"}
                 /\ (mtail = Nil) <=> (mpc'[t] = "cs")
                 /\ (mpc'[t] = "cs") <=> (mtry'[t] = "true")
                 /\ (mpc'[t] = "idle") <=> (mtry'[t] = "false")
                 /\ mpc'[t] = "cs" => mtail' = t
                 /\ mpc'[t] = "idle" =>
                        /\ mtail' = mtail
                        /\ mnext' = mnext
                        /\ waiting' = waiting]_vars

\* t holds the lock through TryLock, u's TryLock has failed meanwhile, and a
\* third goroutine waits in Lock behind t
McsTryLockContractWitness ==
    \E t, u, w \in Threads :
        /\ t # u /\ t # w /\ u # w
        /\ mpc[t] = "cs" /\ mtry[t] = "true"
        /\ mpc[u] = "idle" /\ mtry[u] = "false"
        /\ mpc[w] = "wait" /\ waiting[w] = 1 /\ menq = <<t, w>>

(* ----------------------------- C14 ------------------------------------- *)

\* C14: ticket lock starvation freedom: under fair scheduling, with every
\* holder going on to Unlock, every goroutine that has taken a ticket
\* eventually returns from Lock, and a goroutine returns from Lock only when
\* every goroutine that took its ticket earlier has released.
TicketStarvationFreedom ==
    /\ \A t \in Threads : (tpc[t] \in {"fast", "spin"}) ~> (tpc[t] = "cs")
    /\ [][\A t \in Threads :
             (tpc[t] \in {"fast", "spin"} /\ tpc'[t] = "cs") =>
                 (tqueue # <<>> /\ Head(tqueue) = t)]_vars

\* every goroutine holds a ticket: the oldest is in its critical section and
\* the youngest spins two tickets away from head
TicketStarvationFreedomWitness ==
    /\ Len(tqueue) = NumThreads
    /\ tpc[Head(tqueue)] = "cs"
    /\ tpc[tqueue[NumThreads]] = "spin"
    /\ subAbs(head, myTicket[tqueue[NumThreads]]) >= 2

(* ----------------------------- C16 ------------------------------------- *)

\* C16: ticket counter invariant under Lock, TryLock and Unlock: head never
\* exceeds tail + 1, tail + 1 - head is the number of goroutines holding an
\* unreleased ticket (each Lock and each true TryLock added one to tail, each
\* Unlock one to head), and the lock is free exactly when head = tail + 1.
TicketCounterInvariant ==
    /\ Wrap(tail + 1 - head) = Len(tqueue)
    /\ isFree <=> (tqueue = <<>>)
    /\ (head = Wrap(tail + 1)) <=> (\A t \in Threads : tpc[t] \notin {"fast", "spin"} /\ ~Holding(t))

(* ----------------------------- C17 ------------------------------------- *)

\* goroutine t has swapped (or CASed) its node into tail and has not yet
\* released: it waits in Lock, is in its critical section, or is inside Unlock
McsEnqueued(t) ==
    mpc[t] \in {"set_waiting", "link", "wait", "cs",
                "unlock_cas", "unlock_wait", "unlock_load", "unlock_store"}

\* C17: MCS tail invariant: tail is nil exactly when no goroutine holds the
\* lock or has an unreleased enqueue, and otherwise it is the node of the most
\* recently enqueued goroutine; so IsFree is true on a new lock and, when it
\* loads tail, exactly when the lock is unheld with no enqueue in flight.
McsTailInvariant ==
    /\ (mtail = Nil) <=> (menq = <<>>)
    /\ menq # <<>> => mtail = menq[Len(menq)]
    /\ \A t \in Threads : McsEnqueued(t) <=> (\E i \in 1..Len(menq) : menq[i] = t)
    /\ IsFree <=> (\A t \in Threads : ~McsEnqueued(t))

\* the holder acquired by TryLock and two goroutines have enqueued behind it:
\* tail is the node of the last one although it has not linked yet
McsTailInvariantWitness ==
    /\ Len(menq) = NumThreads
    /\ mtry[Head(menq)] = "true"
    /\ mpc[menq[NumThreads]] = "set_waiting"
    /\ mtail = menq[NumThreads]
    /\ ~IsFree

(* ----------------------------- C18 ------------------------------------- *)

\* C18: array lock per-acquirer slot: while a goroutine is in its critical
\* section the index its Unlock will read is the slot it was assigned by Lock
\* or TryLock, and the slot its Unlock closes (and whose successor it opens) is
\* that slot, whatever other goroutines' Lock and TryLock calls do meanwhile.
ArraySlotOwnership ==
    \A t \in Threads :
        /\ apc[t] = "cs" => myIndex = assigned[t]
        /\ apc[t] \in {"unlock_clear", "unlock_open"} => slot[t] = assigned[t]

(* ----------------------------- C19 ------------------------------------- *)

\* C19: array lock TryLock: a goroutine that is in its critical section
\* through a TryLock that returned true has exclusive access: no other
\* goroutine is between the return of its Lock or TryLock and the end of its
\* Unlock.
ArrayTryLockExclusivity ==
    \A t \in Threads :
        (apc[t] = "cs" /\ atry[t] = "true") =>
            \A u \in Threads \ {t} : ~ArrayHolding(u)

(* ----------------------------- C20 ------------------------------------- *)

\* tail has wrapped past zero and head has not yet followed it
TailWrapped == tail + 1 < head

\* C20: ticket counter wrap-around: with fewer than 2^CounterBits goroutines
\* holding unreleased tickets, while tail has wrapped and head has not, still
\* at most one goroutine holds the lock, the holder is the oldest unreleased
\* ticket holder, and the lock is free exactly when nobody holds a ticket.
TicketWrapAround ==
    TailWrapped =>
        /\ Cardinality({t \in Threads : Holding(t)}) <= 1
        /\ \A t \in Threads : Holding(t) => (tqueue # <<>> /\ Head(tqueue) = t)
        /\ isFree <=> (tqueue = <<>>)

\* the same, on the byte order the code's comments assume
TicketWrapAroundBigEndian == bigEndian => TicketWrapAround

====
